---- MODULE Spec2Model ----
(***************************************************************************)
(* Azure VM price scanner: the classification and enrichment pipeline of   *)
(* scripts/azure_price_scanner.py and the specs resolver of                *)
(* scripts/vm_specs_lookup.py.                                             *)
(*                                                                         *)
(* Text is modelled by TLA+ strings, read character by character with      *)
(* SubSeq.  Prices are integers in thousandths of a dollar, memory sizes   *)
(* are integers in quarters of a GB (the table holds 0.5, 0.75, 1.75 and   *)
(* 3.5 GB entries).                                                        *)
(***************************************************************************)
EXTENDS Integers, Sequences, FiniteSets, TLC

(***************************************************************************)
(* Python values.                                                          *)
(*   text fields   [kind, s]: "absent" (key missing), "null" (None),       *)
(*                 "str" (a string s), "int" (a non-zero JSON number whose *)
(*                 str() is s)                                             *)
(*   number fields [kind, n]: "absent", "null", "num" (the number n),      *)
(*                 "numstr" (a string that float() parses to n),           *)
(*                 "badstr" (a non-empty string float() rejects)           *)
(***************************************************************************)
Absent == [kind |-> "absent", s |-> ""]

Null == [kind |-> "null", s |-> ""]

Str(s) == [kind |-> "str", s |-> s]

IntVal(s) == [kind |-> "int", s |-> s]

NoNum == [kind |-> "null", n |-> 0]

Num(n) == [kind |-> "num", n |-> n]

AbsentNum == [kind |-> "absent", n |-> 0]

NumStr(n) == [kind |-> "numstr", n |-> n]

BadStr == [kind |-> "badstr", n |-> 0]

\* memory sizes, in quarters of a GB
GB(n) == Num(4 * n)

QuarterGB(q) == Num(q)

\* prices, in thousandths of a dollar
Dollars(d) == 1000 * d

\* dict.get(key): a missing key reads as None
Get(v) == IF v.kind = "absent" THEN Null ELSE v

\* dict.get(key, ""): a missing key reads as the default, None stays None
GetOr(v, d) == IF v.kind = "absent" THEN d ELSE v

\* bool(v) for a text value
Truthy(v) == (v.kind = "str" /\ v.s # "") \/ v.kind = "int"

\* a or b
Or(a, b) == IF Truthy(a) THEN a ELSE b

\* f"{v or ''}"
Fmt(v) == IF Truthy(v) THEN v.s ELSE ""

\* v.lower() raises AttributeError unless v is a string
IsStr(v) == v.kind = "str"

(***************************************************************************)
(* Strings.                                                                *)
(***************************************************************************)
UpperLetters == "ABCDEFGHIJKLMNOPQRSTUVWXYZ"

LowerLetters == "abcdefghijklmnopqrstuvwxyz"

Digits == "0123456789"

Char(s, i) == SubSeq(s, i, i)

InAlphabet(c, alphabet) == \E i \in 1..Len(alphabet) : Char(alphabet, i) = c

IndexIn(c, alphabet) == CHOOSE i \in 1..Len(alphabet) : Char(alphabet, i) = c

IsUpper(c) == InAlphabet(c, UpperLetters)

IsDigit(c) == InAlphabet(c, Digits)

LowerChar(c) == IF IsUpper(c) THEN Char(LowerLetters, IndexIn(c, UpperLetters)) ELSE c

RECURSIVE Lower(_)
\* str.lower()
Lower(s) == IF s = "" THEN "" ELSE LowerChar(Head(s)) \o Lower(Tail(s))

\* s[i:].startswith(t), i counted from 1
StartsAt(s, i, t) == i + Len(t) - 1 <= Len(s) /\ SubSeq(s, i, i + Len(t) - 1) = t

\* t in s
Contains(s, t) == \E i \in 1..(Len(s) - Len(t) + 1) : StartsAt(s, i, t)

\* any(t in s for t in terms)
ContainsAny(s, terms) == \E k \in 1..Len(terms) : Contains(s, terms[k])

RECURSIVE RunLen(_, _, _)
\* length of the longest run of characters of the class starting at position i
RunLen(s, i, class) ==
  IF i <= Len(s) /\ InAlphabet(Char(s, i), class) THEN 1 + RunLen(s, i + 1, class) ELSE 0

Letters == UpperLetters \o LowerLetters

RECURSIVE ToInt(_)
\* int(s) for a string of decimal digits
ToInt(s) ==
  IF s = "" THEN 0
  ELSE 10 * ToInt(SubSeq(s, 1, Len(s) - 1)) + (IndexIn(Char(s, Len(s)), Digits) - 1)

(***************************************************************************)
(* vm_specs_lookup.py: the lookup table, in insertion order.               *)
(***************************************************************************)
VM_SPECS_LOOKUP ==
  <<
    [key |-> "b1ls", vcpus |-> Num(1), memoryGB |-> QuarterGB(2)],
    [key |-> "b1s", vcpus |-> Num(1), memoryGB |-> GB(1)],
    [key |-> "b1ms", vcpus |-> Num(1), memoryGB |-> GB(2)],
    [key |-> "b2s", vcpus |-> Num(2), memoryGB |-> GB(4)],
    [key |-> "b2ms", vcpus |-> Num(2), memoryGB |-> GB(8)],
    [key |-> "b2ts", vcpus |-> Num(2), memoryGB |-> GB(8)],
    [key |-> "b4ms", vcpus |-> Num(4), memoryGB |-> GB(16)],
    [key |-> "b8ms", vcpus |-> Num(8), memoryGB |-> GB(32)],
    [key |-> "b12ms", vcpus |-> Num(12), memoryGB |-> GB(48)],
    [key |-> "b16ms", vcpus |-> Num(16), memoryGB |-> GB(64)],
    [key |-> "b20ms", vcpus |-> Num(20), memoryGB |-> GB(80)],
    [key |-> "d1", vcpus |-> Num(1), memoryGB |-> QuarterGB(14)],
    [key |-> "d2", vcpus |-> Num(2), memoryGB |-> GB(7)],
    [key |-> "d3", vcpus |-> Num(4), memoryGB |-> GB(14)],
    [key |-> "d4", vcpus |-> Num(8), memoryGB |-> GB(28)],
    [key |-> "d5", vcpus |-> Num(16), memoryGB |-> GB(56)],
    [key |-> "d2s", vcpus |-> Num(2), memoryGB |-> GB(8)],
    [key |-> "d4s", vcpus |-> Num(4), memoryGB |-> GB(16)],
    [key |-> "d8s", vcpus |-> Num(8), memoryGB |-> GB(32)],
    [key |-> "d16s", vcpus |-> Num(16), memoryGB |-> GB(64)],
    [key |-> "d32s", vcpus |-> Num(32), memoryGB |-> GB(128)],
    [key |-> "d48s", vcpus |-> Num(48), memoryGB |-> GB(192)],
    [key |-> "d64s", vcpus |-> Num(64), memoryGB |-> GB(256)],
    [key |-> "d2ds", vcpus |-> Num(2), memoryGB |-> GB(8)],
    [key |-> "d4ds", vcpus |-> Num(4), memoryGB |-> GB(16)],
    [key |-> "d8ds", vcpus |-> Num(8), memoryGB |-> GB(32)],
    [key |-> "d16ds", vcpus |-> Num(16), memoryGB |-> GB(64)],
    [key |-> "d32ds", vcpus |-> Num(32), memoryGB |-> GB(128)],
    [key |-> "d48ds", vcpus |-> Num(48), memoryGB |-> GB(192)],
    [key |-> "d64ds", vcpus |-> Num(64), memoryGB |-> GB(256)],
    [key |-> "d2d", vcpus |-> Num(2), memoryGB |-> GB(8)],
    [key |-> "d4d", vcpus |-> Num(4), memoryGB |-> GB(16)],
    [key |-> "d8d", vcpus |-> Num(8), memoryGB |-> GB(32)],
    [key |-> "d16d", vcpus |-> Num(16), memoryGB |-> GB(64)],
    [key |-> "d32d", vcpus |-> Num(32), memoryGB |-> GB(128)],
    [key |-> "d48d", vcpus |-> Num(48), memoryGB |-> GB(192)],
    [key |-> "d64d", vcpus |-> Num(64), memoryGB |-> GB(256)],
    [key |-> "e2", vcpus |-> Num(2), memoryGB |-> GB(16)],
    [key |-> "e4", vcpus |-> Num(4), memoryGB |-> GB(32)],
    [key |-> "e8", vcpus |-> Num(8), memoryGB |-> GB(64)],
    [key |-> "e16", vcpus |-> Num(16), memoryGB |-> GB(128)],
    [key |-> "e20", vcpus |-> Num(20), memoryGB |-> GB(160)],
    [key |-> "e32", vcpus |-> Num(32), memoryGB |-> GB(256)],
    [key |-> "e48", vcpus |-> Num(48), memoryGB |-> GB(384)],
    [key |-> "e64", vcpus |-> Num(64), memoryGB |-> GB(432)],
    [key |-> "e96", vcpus |-> Num(96), memoryGB |-> GB(672)],
    [key |-> "e2s", vcpus |-> Num(2), memoryGB |-> GB(16)],
    [key |-> "e4s", vcpus |-> Num(4), memoryGB |-> GB(32)],
    [key |-> "e8s", vcpus |-> Num(8), memoryGB |-> GB(64)],
    [key |-> "e16s", vcpus |-> Num(16), memoryGB |-> GB(128)],
    [key |-> "e20s", vcpus |-> Num(20), memoryGB |-> GB(160)],
    [key |-> "e32s", vcpus |-> Num(32), memoryGB |-> GB(256)],
    [key |-> "e48s", vcpus |-> Num(48), memoryGB |-> GB(384)],
    [key |-> "e64s", vcpus |-> Num(64), memoryGB |-> GB(432)],
    [key |-> "e96s", vcpus |-> Num(96), memoryGB |-> GB(672)],
    [key |-> "e2ds", vcpus |-> Num(2), memoryGB |-> GB(16)],
    [key |-> "e4ds", vcpus |-> Num(4), memoryGB |-> GB(32)],
    [key |-> "e8ds", vcpus |-> Num(8), memoryGB |-> GB(64)],
    [key |-> "e16ds", vcpus |-> Num(16), memoryGB |-> GB(128)],
    [key |-> "e20ds", vcpus |-> Num(20), memoryGB |-> GB(160)],
    [key |-> "e32ds", vcpus |-> Num(32), memoryGB |-> GB(256)],
    [key |-> "e48ds", vcpus |-> Num(48), memoryGB |-> GB(384)],
    [key |-> "e64ds", vcpus |-> Num(64), memoryGB |-> GB(432)],
    [key |-> "e96ds", vcpus |-> Num(96), memoryGB |-> GB(672)],
    [key |-> "f2", vcpus |-> Num(2), memoryGB |-> GB(4)],
    [key |-> "f4", vcpus |-> Num(4), memoryGB |-> GB(8)],
    [key |-> "f8", vcpus |-> Num(8), memoryGB |-> GB(16)],
    [key |-> "f16", vcpus |-> Num(16), memoryGB |-> GB(32)],
    [key |-> "f32", vcpus |-> Num(32), memoryGB |-> GB(64)],
    [key |-> "f48", vcpus |-> Num(48), memoryGB |-> GB(96)],
    [key |-> "f64", vcpus |-> Num(64), memoryGB |-> GB(128)],
    [key |-> "f72", vcpus |-> Num(72), memoryGB |-> GB(144)],
    [key |-> "f2s", vcpus |-> Num(2), memoryGB |-> GB(4)],
    [key |-> "f4s", vcpus |-> Num(4), memoryGB |-> GB(8)],
    [key |-> "f8s", vcpus |-> Num(8), memoryGB |-> GB(16)],
    [key |-> "f16s", vcpus |-> Num(16), memoryGB |-> GB(32)],
    [key |-> "f32s", vcpus |-> Num(32), memoryGB |-> GB(64)],
    [key |-> "f48s", vcpus |-> Num(48), memoryGB |-> GB(96)],
    [key |-> "f64s", vcpus |-> Num(64), memoryGB |-> GB(128)],
    [key |-> "f72s", vcpus |-> Num(72), memoryGB |-> GB(144)],
    [key |-> "m8", vcpus |-> Num(8), memoryGB |-> GB(218)],
    [key |-> "m16", vcpus |-> Num(16), memoryGB |-> GB(436)],
    [key |-> "m32", vcpus |-> Num(32), memoryGB |-> GB(872)],
    [key |-> "m64", vcpus |-> Num(64), memoryGB |-> GB(1742)],
    [key |-> "m128", vcpus |-> Num(128), memoryGB |-> GB(3892)],
    [key |-> "m192", vcpus |-> Num(192), memoryGB |-> GB(4096)],
    [key |-> "m208", vcpus |-> Num(208), memoryGB |-> GB(5700)],
    [key |-> "m416", vcpus |-> Num(416), memoryGB |-> GB(11400)],
    [key |-> "m8ms", vcpus |-> Num(8), memoryGB |-> GB(218)],
    [key |-> "m16ms", vcpus |-> Num(16), memoryGB |-> GB(436)],
    [key |-> "m32ms", vcpus |-> Num(32), memoryGB |-> GB(872)],
    [key |-> "m64ms", vcpus |-> Num(64), memoryGB |-> GB(1742)],
    [key |-> "m128ms", vcpus |-> Num(128), memoryGB |-> GB(3892)],
    [key |-> "m192ms", vcpus |-> Num(192), memoryGB |-> GB(4096)],
    [key |-> "m208ms", vcpus |-> Num(208), memoryGB |-> GB(5700)],
    [key |-> "m416ms", vcpus |-> Num(416), memoryGB |-> GB(11400)],
    [key |-> "m8s", vcpus |-> Num(8), memoryGB |-> GB(218)],
    [key |-> "m16s", vcpus |-> Num(16), memoryGB |-> GB(436)],
    [key |-> "m32s", vcpus |-> Num(32), memoryGB |-> GB(872)],
    [key |-> "m64s", vcpus |-> Num(64), memoryGB |-> GB(1742)],
    [key |-> "m128s", vcpus |-> Num(128), memoryGB |-> GB(3892)],
    [key |-> "m192s", vcpus |-> Num(192), memoryGB |-> GB(4096)],
    [key |-> "m208s", vcpus |-> Num(208), memoryGB |-> GB(5700)],
    [key |-> "m416s", vcpus |-> Num(416), memoryGB |-> GB(11400)],
    [key |-> "2v3", vcpus |-> Num(2), memoryGB |-> GB(8)],
    [key |-> "4v3", vcpus |-> Num(4), memoryGB |-> GB(16)],
    [key |-> "8v3", vcpus |-> Num(8), memoryGB |-> GB(32)],
    [key |-> "16v3", vcpus |-> Num(16), memoryGB |-> GB(64)],
    [key |-> "32v3", vcpus |-> Num(32), memoryGB |-> GB(128)],
    [key |-> "64v3", vcpus |-> Num(64), memoryGB |-> GB(256)],
    [key |-> "96v3", vcpus |-> Num(96), memoryGB |-> GB(384)],
    [key |-> "2v4", vcpus |-> Num(2), memoryGB |-> GB(8)],
    [key |-> "4v4", vcpus |-> Num(4), memoryGB |-> GB(16)],
    [key |-> "8v4", vcpus |-> Num(8), memoryGB |-> GB(32)],
    [key |-> "16v4", vcpus |-> Num(16), memoryGB |-> GB(64)],
    [key |-> "32v4", vcpus |-> Num(32), memoryGB |-> GB(128)],
    [key |-> "64v4", vcpus |-> Num(64), memoryGB |-> GB(256)],
    [key |-> "96v4", vcpus |-> Num(96), memoryGB |-> GB(384)],
    [key |-> "2v5", vcpus |-> Num(2), memoryGB |-> GB(8)],
    [key |-> "4v5", vcpus |-> Num(4), memoryGB |-> GB(16)],
    [key |-> "8v5", vcpus |-> Num(8), memoryGB |-> GB(32)],
    [key |-> "16v5", vcpus |-> Num(16), memoryGB |-> GB(64)],
    [key |-> "32v5", vcpus |-> Num(32), memoryGB |-> GB(128)],
    [key |-> "64v5", vcpus |-> Num(64), memoryGB |-> GB(256)],
    [key |-> "96v5", vcpus |-> Num(96), memoryGB |-> GB(384)],
    [key |-> "a0", vcpus |-> Num(1), memoryGB |-> QuarterGB(3)],
    [key |-> "a1", vcpus |-> Num(1), memoryGB |-> QuarterGB(7)],
    [key |-> "a2", vcpus |-> Num(2), memoryGB |-> QuarterGB(14)],
    [key |-> "a3", vcpus |-> Num(4), memoryGB |-> GB(7)],
    [key |-> "a4", vcpus |-> Num(8), memoryGB |-> GB(14)],
    [key |-> "a5", vcpus |-> Num(2), memoryGB |-> GB(14)],
    [key |-> "a6", vcpus |-> Num(4), memoryGB |-> GB(28)],
    [key |-> "a7", vcpus |-> Num(8), memoryGB |-> GB(56)],
    [key |-> "a8", vcpus |-> Num(8), memoryGB |-> GB(56)],
    [key |-> "a9", vcpus |-> Num(16), memoryGB |-> GB(112)],
    [key |-> "a10", vcpus |-> Num(8), memoryGB |-> GB(56)],
    [key |-> "a11", vcpus |-> Num(16), memoryGB |-> GB(112)],
    [key |-> "nc6", vcpus |-> Num(6), memoryGB |-> GB(56)],
    [key |-> "nc12", vcpus |-> Num(12), memoryGB |-> GB(112)],
    [key |-> "nc24", vcpus |-> Num(24), memoryGB |-> GB(224)],
    [key |-> "nc24r", vcpus |-> Num(24), memoryGB |-> GB(224)],
    [key |-> "nc6s", vcpus |-> Num(6), memoryGB |-> GB(112)],
    [key |-> "nc12s", vcpus |-> Num(12), memoryGB |-> GB(224)],
    [key |-> "nc24s", vcpus |-> Num(24), memoryGB |-> GB(448)],
    [key |-> "nc24rs", vcpus |-> Num(24), memoryGB |-> GB(448)],
    [key |-> "nc6sv3", vcpus |-> Num(6), memoryGB |-> GB(112)],
    [key |-> "nc12sv3", vcpus |-> Num(12), memoryGB |-> GB(224)],
    [key |-> "nc24sv3", vcpus |-> Num(24), memoryGB |-> GB(448)],
    [key |-> "nc24rsv3", vcpus |-> Num(24), memoryGB |-> GB(448)],
    [key |-> "nv6", vcpus |-> Num(6), memoryGB |-> GB(56)],
    [key |-> "nv12", vcpus |-> Num(12), memoryGB |-> GB(112)],
    [key |-> "nv24", vcpus |-> Num(24), memoryGB |-> GB(224)],
    [key |-> "nv6s", vcpus |-> Num(6), memoryGB |-> GB(112)],
    [key |-> "nv12s", vcpus |-> Num(12), memoryGB |-> GB(224)],
    [key |-> "nv24s", vcpus |-> Num(24), memoryGB |-> GB(448)],
    [key |-> "h8", vcpus |-> Num(8), memoryGB |-> GB(56)],
    [key |-> "h16", vcpus |-> Num(16), memoryGB |-> GB(112)],
    [key |-> "h8r", vcpus |-> Num(8), memoryGB |-> GB(56)],
    [key |-> "h16r", vcpus |-> Num(16), memoryGB |-> GB(112)],
    [key |-> "h8m", vcpus |-> Num(8), memoryGB |-> GB(112)],
    [key |-> "h16m", vcpus |-> Num(16), memoryGB |-> GB(224)],
    [key |-> "h16mr", vcpus |-> Num(16), memoryGB |-> GB(224)],
    [key |-> "l8s", vcpus |-> Num(8), memoryGB |-> GB(64)],
    [key |-> "l16s", vcpus |-> Num(16), memoryGB |-> GB(128)],
    [key |-> "l32s", vcpus |-> Num(32), memoryGB |-> GB(256)],
    [key |-> "l48s", vcpus |-> Num(48), memoryGB |-> GB(384)],
    [key |-> "l64s", vcpus |-> Num(64), memoryGB |-> GB(512)],
    [key |-> "l80s", vcpus |-> Num(80), memoryGB |-> GB(640)],
    [key |-> "g1", vcpus |-> Num(2), memoryGB |-> GB(28)],
    [key |-> "g2", vcpus |-> Num(4), memoryGB |-> GB(56)],
    [key |-> "g3", vcpus |-> Num(8), memoryGB |-> GB(112)],
    [key |-> "g4", vcpus |-> Num(16), memoryGB |-> GB(224)],
    [key |-> "g5", vcpus |-> Num(32), memoryGB |-> GB(448)],
    [key |-> "dasv4", vcpus |-> Num(2), memoryGB |-> GB(8)],
    [key |-> "easv4", vcpus |-> Num(2), memoryGB |-> GB(16)],
    [key |-> "fasv4", vcpus |-> Num(2), memoryGB |-> GB(4)],
    [key |-> "dcsv2", vcpus |-> Num(2), memoryGB |-> GB(8)],
    [key |-> "ecsv2", vcpus |-> Num(2), memoryGB |-> GB(16)],
    [key |-> "spot", vcpus |-> NoNum, memoryGB |-> NoNum],
    [key |-> "lowpriority", vcpus |-> NoNum, memoryGB |-> NoNum],
    [key |-> "2a", vcpus |-> Num(2), memoryGB |-> GB(4)],
    [key |-> "4a", vcpus |-> Num(4), memoryGB |-> GB(8)],
    [key |-> "8a", vcpus |-> Num(8), memoryGB |-> GB(16)],
    [key |-> "16a", vcpus |-> Num(16), memoryGB |-> GB(32)],
    [key |-> "2d", vcpus |-> Num(2), memoryGB |-> GB(8)],
    [key |-> "4d", vcpus |-> Num(4), memoryGB |-> GB(16)],
    [key |-> "8d", vcpus |-> Num(8), memoryGB |-> GB(32)],
    [key |-> "16d", vcpus |-> Num(16), memoryGB |-> GB(64)],
    [key |-> "2e", vcpus |-> Num(2), memoryGB |-> GB(16)],
    [key |-> "4e", vcpus |-> Num(4), memoryGB |-> GB(32)],
    [key |-> "8e", vcpus |-> Num(8), memoryGB |-> GB(64)],
    [key |-> "16e", vcpus |-> Num(16), memoryGB |-> GB(128)],
    [key |-> "2f", vcpus |-> Num(2), memoryGB |-> GB(4)],
    [key |-> "4f", vcpus |-> Num(4), memoryGB |-> GB(8)],
    [key |-> "8f", vcpus |-> Num(8), memoryGB |-> GB(16)],
    [key |-> "16f", vcpus |-> Num(16), memoryGB |-> GB(32)],
    [key |-> "2m", vcpus |-> Num(2), memoryGB |-> GB(16)],
    [key |-> "4m", vcpus |-> Num(4), memoryGB |-> GB(32)],
    [key |-> "8m", vcpus |-> Num(8), memoryGB |-> GB(64)],
    [key |-> "16m", vcpus |-> Num(16), memoryGB |-> GB(128)],
    [key |-> "416", vcpus |-> Num(416), memoryGB |-> GB(5700)],
    [key |-> "448", vcpus |-> Num(448), memoryGB |-> GB(6144)],
    [key |-> "480", vcpus |-> Num(480), memoryGB |-> GB(6400)],
    [key |-> "512", vcpus |-> Num(512), memoryGB |-> GB(8192)],
    [key |-> "576", vcpus |-> Num(576), memoryGB |-> GB(9216)],
    [key |-> "672", vcpus |-> Num(672), memoryGB |-> GB(10752)],
    [key |-> "768", vcpus |-> Num(768), memoryGB |-> GB(12288)],
    [key |-> "896", vcpus |-> Num(896), memoryGB |-> GB(14336)],
    [key |-> "1024", vcpus |-> Num(1024), memoryGB |-> GB(16384)]
  >>

NoSpecs == [vcpus |-> NoNum, memoryGB |-> NoNum]

SpecsOf(k) == [vcpus |-> VM_SPECS_LOOKUP[k].vcpus, memoryGB |-> VM_SPECS_LOOKUP[k].memoryGB]

\* key in VM_SPECS_LOOKUP
InTable(key) == \E k \in 1..Len(VM_SPECS_LOOKUP) : VM_SPECS_LOOKUP[k].key = key

\* VM_SPECS_LOOKUP[key]
TableAt(key) == SpecsOf(CHOOSE k \in 1..Len(VM_SPECS_LOOKUP) : VM_SPECS_LOOKUP[k].key = key)

RECURSIVE StripFrom(_, _)
\* re.sub(r'standard_|_v[0-9]+|promo|_', '', s): at each position the
\* alternatives are tried in the order written, the first that matches is
\* removed and the scan resumes after it
StripFrom(s, i) ==
  IF i > Len(s) THEN ""
  ELSE IF StartsAt(s, i, "standard_") THEN StripFrom(s, i + 9)
  ELSE IF StartsAt(s, i, "_v") /\ RunLen(s, i + 2, Digits) >= 1
    THEN StripFrom(s, i + 2 + RunLen(s, i + 2, Digits))
  ELSE IF StartsAt(s, i, "promo") THEN StripFrom(s, i + 5)
  ELSE IF StartsAt(s, i, "_") THEN StripFrom(s, i + 1)
  ELSE Char(s, i) \o StripFrom(s, i + 1)

RECURSIVE RemoveSpaces(_)
\* s.replace(' ', '')
RemoveSpaces(s) ==
  IF s = "" THEN ""
  ELSE IF Head(s) = " " THEN RemoveSpaces(Tail(s))
  ELSE Head(s) \o RemoveSpaces(Tail(s))

\* clean_name of get_vm_specs
CleanName(name) == RemoveSpaces(StripFrom(Lower(name), 1))

\* the table rows whose key occurs in the cleaned name
PartialMatches(clean) ==
  {k \in 1..Len(VM_SPECS_LOOKUP) : Contains(clean, VM_SPECS_LOOKUP[k].key)}

Min(S) == CHOOSE x \in S : \A y \in S : x <= y

Max(S) == CHOOSE x \in S : \A y \in S : x >= y

\* a scan that keeps the last matching row instead of returning at the first
LastPartial(clean) == Max(PartialMatches(clean))

\* "for pattern, specs in VM_SPECS_LOOKUP.items()": the first matching row
FirstPartial(clean) == Min(PartialMatches(clean))

\* re.search(r'([a-z]*\d+[a-z]*)', clean): start positions at which the
\* pattern matches; "" when there is none
SizeStarts(clean) ==
  {i \in 1..Len(clean) :
     RunLen(clean, i + RunLen(clean, i, LowerLetters), Digits) >= 1}

SizeKey(clean) ==
  IF SizeStarts(clean) = {} THEN ""
  ELSE LET i == Min(SizeStarts(clean))
           a == RunLen(clean, i, LowerLetters)
           d == RunLen(clean, i + a, Digits)
           z == RunLen(clean, i + a + d, LowerLetters)
       IN  SubSeq(clean, i, i + a + d + z - 1)

\* re.search(r'(\d+)', clean): the first run of digits, "" when there is none
NumericKey(clean) ==
  LET starts == {i \in 1..Len(clean) : IsDigit(Char(clean, i))}
  IN  IF starts = {} THEN ""
      ELSE SubSeq(clean, Min(starts), Min(starts) + RunLen(clean, Min(starts), Digits) - 1)

CanonicalSizes == {"2", "4", "8", "16", "32", "64", "128", "256"}

\* get_vm_specs(vm_name), vm_name a string or None
get_vm_specs(vm_name) ==
  IF ~Truthy(vm_name) THEN NoSpecs
  ELSE LET clean == CleanName(vm_name.s) IN
    IF InTable(clean) THEN TableAt(clean)
    ELSE IF PartialMatches(clean) # {} THEN SpecsOf(FirstPartial(clean))
    ELSE IF SizeKey(clean) # "" /\ InTable(SizeKey(clean)) THEN TableAt(SizeKey(clean))
    ELSE IF NumericKey(clean) \in CanonicalSizes
      THEN [vcpus |-> Num(ToInt(NumericKey(clean))),
            memoryGB |-> GB(ToInt(NumericKey(clean)) * 4)]
    ELSE NoSpecs

(***************************************************************************)
(* azure_price_scanner.py: classification and enrichment.                  *)
(*                                                                         *)
(* A raw item is [mapping, serviceName, unitOfMeasure, meterName,          *)
(* productName, skuName, armSkuName, retailPrice, unitPrice,               *)
(* armRegionName, location, meterId]; mapping is FALSE for an element of   *)
(* "Items" that is not a JSON object.  The functions that can raise return *)
(* "raise" in that case.                                                   *)
(***************************************************************************)
MaxPricePerHour == 1000

\* bool(v) for a number value: None, a missing key and 0 are false, every
\* non-empty string is true
TruthyNum(v) == (v.kind = "num" /\ v.n # 0) \/ v.kind \in {"numstr", "badstr"}

\* item.get("retailPrice") or item.get("unitPrice") or 0
SelectedPrice(item) ==
  IF TruthyNum(item.retailPrice) THEN item.retailPrice
  ELSE IF TruthyNum(item.unitPrice) THEN item.unitPrice
  ELSE Num(0)

\* float(price) succeeds
Parseable(price) == price.kind \in {"num", "numstr"}

\* a ceiling test that also refuses the ceiling itself
AtOrAboveCeiling(n) == n >= Dollars(MaxPricePerHour)

\* price > 1000
AboveCeiling(n) == n > Dollars(MaxPricePerHour)

ExclusionTerms ==
  << "reservation", "sql", "database", "storage", "bandwidth",
     "snapshot", "backup", "oracle", "premium ssd", "managed disk" >>

\* (item.get(key) or "").lower()
LowerOrEmpty(v) == Lower(Fmt(Get(v)))

\* the exclusion terms searched in the product and SKU names only
is_consumption_pricing_no_meter(item) ==
  IF \E v \in {item.unitOfMeasure, item.meterName, item.productName, item.skuName} :
       Truthy(v) /\ ~IsStr(v)
    THEN "raise"
  ELSE LET unit == LowerOrEmpty(item.unitOfMeasure)
           combined_text == Lower(LowerOrEmpty(item.productName) \o " "
                                  \o LowerOrEmpty(item.skuName))
           price == SelectedPrice(item)
       IN  IF ~Contains(unit, "hour") THEN "False"
           ELSE IF ContainsAny(combined_text, ExclusionTerms) THEN "False"
           ELSE IF Parseable(price) /\ AboveCeiling(price.n) THEN "False"
           ELSE "True"

is_consumption_pricing(item) ==
  IF \E v \in {item.unitOfMeasure, item.meterName, item.productName, item.skuName} :
       Truthy(v) /\ ~IsStr(v)
    THEN "raise"
  ELSE LET unit == LowerOrEmpty(item.unitOfMeasure)
           combined_text == Lower(LowerOrEmpty(item.meterName) \o " "
                                  \o LowerOrEmpty(item.productName) \o " "
                                  \o LowerOrEmpty(item.skuName))
           price == SelectedPrice(item)
       IN  IF ~Contains(unit, "hour") THEN "False"
           ELSE IF ContainsAny(combined_text, ExclusionTerms) THEN "False"
           ELSE IF Parseable(price) /\ AboveCeiling(price.n) THEN "False"
           ELSE "True"

\* re.search(r'(\d+)\s*<word>', text): the digits of the leftmost match, ""
\* when there is none
NumberBefore(text, word) ==
  LET starts == {i \in 1..Len(text) :
                   /\ IsDigit(Char(text, i))
                   /\ LET d == RunLen(text, i, Digits)
                          w == RunLen(text, i + d, " ")
                      IN  StartsAt(text, i + d + w, word)}
  IN  IF starts = {} THEN ""
      ELSE SubSeq(text, Min(starts), Min(starts) + RunLen(text, Min(starts), Digits) - 1)

\* the fallback runs for every field
AlwaysUnresolved(v) == TRUE

\* not specs[field]
Unresolved(v) == v.kind = "null" \/ v.n = 0

\* parse_vm_specs, for a vm_name that is a string or None (vm_name.lower()
\* raises AttributeError on anything else)
parse_vm_specs(product_name, sku_name, vm_name) ==
  LET lookup_specs == get_vm_specs(vm_name)
      search_text == Lower(Fmt(product_name) \o " " \o Fmt(sku_name))
      vcpu_match == NumberBefore(search_text, "vcpu")
      ram_match == NumberBefore(search_text, "gb")
  IN  [vcpus |-> IF Unresolved(lookup_specs.vcpus) /\ vcpu_match # ""
                   THEN Num(ToInt(vcpu_match)) ELSE lookup_specs.vcpus,
       memoryGB |-> IF Unresolved(lookup_specs.memoryGB) /\ ram_match # ""
                      THEN GB(ToInt(ram_match)) ELSE lookup_specs.memoryGB]

LinuxIndicators == << "ubuntu", "red hat", "rhel", "suse", "debian", "centos" >>

determine_os_type(product_name, sku_name) ==
  LET combined_text == Lower(Fmt(product_name) \o " " \o Fmt(sku_name))
  IN  IF Contains(combined_text, "windows") THEN "Windows"
      ELSE IF Contains(combined_text, "linux") THEN "Linux"
      ELSE IF ContainsAny(combined_text, LinuxIndicators) THEN "Linux"
      ELSE "Unknown"

SpotIndicators == << "spot", "low priority", "low-priority" >>

is_spot_instance(sku_name, product_name) ==
  ContainsAny(Lower(Fmt(sku_name) \o " " \o Fmt(product_name)), SpotIndicators)

(***************************************************************************)
(* SERIES_PATTERN = ([A-Za-z]+)\d*[a-z]*\s*v?(\d+), IGNORECASE.  Every     *)
(* quantifier is greedy and gives characters back on failure, so each part *)
(* takes the longest run that still lets the rest of the pattern match.    *)
(* TailX(s, p) is the position where group 2 starts when the rest of the   *)
(* pattern from part X on is matched at position p, 0 when it cannot.      *)
(***************************************************************************)
\* v?(\d+)
TailV(s, p) ==
  IF RunLen(s, p, "vV") >= 1 /\ RunLen(s, p + 1, Digits) >= 1 THEN p + 1
  ELSE IF RunLen(s, p, Digits) >= 1 THEN p
  ELSE 0

\* of the tails <<n, tail>> a part leaves when it takes n characters, the
\* tail of the longest take that lets the rest match; 0 when none does
Longest(tails) ==
  IF \A t \in tails : t[2] = 0 THEN 0
  ELSE (CHOOSE t \in tails : t[2] # 0 /\ \A u \in tails : u[2] # 0 => u[1] <= t[1])[2]

\* \s*v?(\d+)
TailS(s, p) == Longest({<<w, TailV(s, p + w)>> : w \in 0..RunLen(s, p, " ")})

\* [a-z]*\s*v?(\d+)
TailL(s, p) == Longest({<<c, TailS(s, p + c)>> : c \in 0..RunLen(s, p, Letters)})

\* \d*[a-z]*\s*v?(\d+)
TailD(s, p) == Longest({<<d, TailL(s, p + d)>> : d \in 0..RunLen(s, p, Digits)})

\* the ways the pattern matches in s: group 1 is the a letters from position
\* i, group 2 starts at position g
SeriesMatches(s) ==
  {m \in UNION {{[i |-> i, a |-> a, g |-> TailD(s, i + a)] :
                   a \in 1..RunLen(s, i, Letters)} : i \in 1..Len(s)} : m.g # 0}

\* the match a search reports: the leftmost start, and there the longest
\* group 1
Reported(matches) ==
  CHOOSE m \in matches : \A n \in matches : m.i < n.i \/ (m.i = n.i /\ m.a >= n.a)

\* group(1) and group(2) of a match
Groups(s, m) ==
  [matched |-> TRUE,
   family |-> SubSeq(s, m.i, m.i + m.a - 1),
   generation |-> SubSeq(s, m.g, m.g + RunLen(s, m.g, Digits) - 1)]

\* the result of a search with the given matches
SearchResult(s, matches) ==
  IF matches = {} THEN [matched |-> FALSE, family |-> "", generation |-> ""]
  ELSE Groups(s, Reported(matches))

\* SERIES_PATTERN.search(s): [matched, family, generation]
SeriesMatch(s) == SearchResult(s, SeriesMatches(s))

RECURSIVE RemoveAll(_, _)
\* s.replace(t, "")
RemoveAll(s, t) ==
  IF s = "" THEN ""
  ELSE IF StartsAt(s, 1, t) THEN RemoveAll(SubSeq(s, Len(t) + 1, Len(s)), t)
  ELSE Head(s) \o RemoveAll(Tail(s), t)

\* re.match(r'([A-Za-z]+)', s): the leading run of letters
LeadingLetters(s) == SubSeq(s, 1, RunLen(s, 1, Letters))

\* source_text of extract_series_info: arm_sku_name or sku_name or ""
SourceText(sku_name, arm_sku_name) == Or(Or(arm_sku_name, sku_name), Str(""))

\* the three outcomes of extract_series_info, given the pattern match, the
\* leading letters of the fallback and the size
SeriesInfo(series_match, family_match, size) ==
  IF series_match.matched
    THEN [series |-> Str(series_match.family \o "v" \o series_match.generation),
          family |-> Str(series_match.family),
          size |-> size]
  ELSE IF family_match # ""
    THEN [series |-> Str(family_match), family |-> Str(family_match), size |-> size]
  ELSE [series |-> Null, family |-> Null, size |-> size]

\* extract_series_info, for a source text that is a string (the pattern
\* search raises TypeError on anything else)
extract_series_info(sku_name, arm_sku_name) ==
  SeriesInfo(SeriesMatch(SourceText(sku_name, arm_sku_name).s),
             LeadingLetters(RemoveAll(SourceText(sku_name, arm_sku_name).s, "Standard_")),
             Or(sku_name, arm_sku_name))

\* item.get("armRegionName") or item.get("location", "")
RegionOf(item) == Or(Get(item.armRegionName), GetOr(item.location, Str("")))

\* vm_name of _process_item: series_info["size"] or sku_name or arm_sku_name
VmName(series_info, sku_name, arm_sku_name) ==
  Or(Or(series_info.size, sku_name), arm_sku_name)

\* price of _process_item: float(price), 0.0 when that raises
PriceOf(item) == IF Parseable(SelectedPrice(item)) THEN SelectedPrice(item).n ELSE 0

\* the dict _process_item builds
Processed(item, sku_name, product_name, arm_sku_name, series_info, specs) ==
  [name |-> VmName(series_info, sku_name, arm_sku_name),
   skuName |-> sku_name,
   productName |-> product_name,
   armSkuName |-> arm_sku_name,
   series |-> series_info.series,
   family |-> series_info.family,
   size |-> series_info.size,
   os |-> determine_os_type(product_name, sku_name),
   isSpot |-> is_spot_instance(sku_name, product_name),
   vcpus |-> specs.vcpus,
   memoryGB |-> specs.memoryGB,
   pricePerHour |-> PriceOf(item),
   unitOfMeasure |-> GetOr(item.unitOfMeasure, Str("1 Hour")),
   region |-> RegionOf(item),
   meterId |-> Get(item.meterId),
   meterName |-> Get(item.meterName)]

\* the body of _process_item once series_info is known
ProcessWith(item, sku_name, product_name, arm_sku_name, series_info) ==
  IF /\ Truthy(VmName(series_info, sku_name, arm_sku_name))
     /\ ~IsStr(VmName(series_info, sku_name, arm_sku_name))
    THEN <<>>
  ELSE IF AboveCeiling(PriceOf(item)) THEN <<>>
  ELSE << Processed(item, sku_name, product_name, arm_sku_name, series_info,
                    parse_vm_specs(product_name, sku_name,
                                   VmName(series_info, sku_name, arm_sku_name))) >>

\* _process_item: <<>> for None, <<record>> for a record.  Every exception
\* raised inside it is caught and gives None.
_process_item(item) ==
  IF ~item.mapping THEN <<>>
  ELSE IF ~IsStr(SourceText(GetOr(item.skuName, Str("")), GetOr(item.armSkuName, Str(""))))
    THEN <<>>
  ELSE ProcessWith(item, GetOr(item.skuName, Str("")), GetOr(item.productName, Str("")),
                   GetOr(item.armSkuName, Str("")),
                   extract_series_info(GetOr(item.skuName, Str("")),
                                       GetOr(item.armSkuName, Str(""))))

RECURSIVE LowerAll(_)
\* [r.lower() for r in regions]
LowerAll(list) ==
  IF list = <<>> THEN <<>> ELSE <<Lower(Head(list))>> \o LowerAll(Tail(list))

\* x in list
InList(x, list) == \E k \in 1..Len(list) : list[k] = x

\* a comparison that forgets to lower-case both sides
RegionListedExactly(item_region, allow) == InList(item_region, allow)

\* item_region.lower() in [r.lower() for r in regions]
RegionListed(item_region, allow) == InList(Lower(item_region), LowerAll(allow))

\* _should_include_item(item, include_spot, regions): "True", "False" or
\* "raise"; allow is the regions argument, <<>> when no region filter is
\* configured
_should_include_item(item, spot, allow) ==
  IF ~item.mapping THEN "raise"
  ELSE IF Get(item.serviceName) # Str("Virtual Machines") THEN "False"
  ELSE IF is_consumption_pricing(item) # "True" THEN is_consumption_pricing(item)
  ELSE IF ~spot /\ is_spot_instance(GetOr(item.skuName, Str("")),
                                    GetOr(item.productName, Str("")))
    THEN "False"
  ELSE IF allow # <<>>
    THEN LET item_region == RegionOf(item)
         IN  IF ~Truthy(item_region) THEN "False"
             ELSE IF ~IsStr(item_region) THEN "raise"
             ELSE IF ~RegionListed(item_region.s, allow) THEN "False"
             ELSE "True"
  ELSE "True"

(***************************************************************************)
(* generate_summary.  The summary's prices are integers in millionths of a *)
(* dollar: round(x, 6) keeps six decimal places.                           *)
(***************************************************************************)
\* the characters of the modelled texts in code point order
CodeOrder == " -0123456789ABCDEFGHIJKLMNOPQRSTUVWXYZ_abcdefghijklmnopqrstuvwxyz"

RECURSIVE StrBefore(_, _)
\* a < b for strings
StrBefore(a, b) ==
  IF b = "" THEN FALSE
  ELSE IF a = "" THEN TRUE
  ELSE IF Head(a) = Head(b) THEN StrBefore(Tail(a), Tail(b))
  ELSE IndexIn(Head(a), CodeOrder) < IndexIn(Head(b), CodeOrder)

\* u < v for two strings or two numbers
ValueBefore(u, v) ==
  IF u.kind = "int" THEN ToInt(u.s) < ToInt(v.s) ELSE StrBefore(u.s, v.s)

\* the least of a non-empty set of values of one kind
LeastOf(values) ==
  CHOOSE least \in values : \A v \in values \ {least} : ValueBefore(least, v)

RECURSIVE Sorted(_)
\* the least value, then the others sorted
LeastFirst(least, values) == <<least>> \o Sorted(values \ {least})

\* sorted(set(...)) for values of one kind
Sorted(values) == IF values = {} THEN <<>> ELSE LeastFirst(LeastOf(values), values)

\* sorted() compares a number with a string: TypeError
Unorderable(values) == \E u \in values : \E v \in values : u.kind # v.kind

\* the values a field takes in the items, the empty ones included
AllValues(items, field) == {items[k][field] : k \in 1..Len(items)}

\* the truthy values a field takes in the items
Distinct(items, field) ==
  {items[k][field] : k \in {j \in 1..Len(items) : Truthy(items[j][field])}}

RECURSIVE Prices(_)
\* [item.get("pricePerHour", 0) for item in items if ... is not None]: the
\* price of a record built by _process_item is never None
Prices(items) ==
  IF items = <<>> THEN <<>> ELSE <<Head(items).pricePerHour>> \o Prices(Tail(items))

RECURSIVE Sum(_)
\* sum(prices)
Sum(prices) == IF prices = <<>> THEN 0 ELSE Head(prices) + Sum(Tail(prices))

\* round(total / n, 6) in millionths, total in thousandths: the nearest
\* millionth (1000 * total / n is never half-way between two for n < 9)
Rounded(total, n) == 1000 * (total \div n) + (2 * 1000 * (total % n) + n) \div (2 * n)

\* generate_summary raises: the regions cannot be sorted
SummaryRaises(items) == Unorderable(Distinct(items, "region"))

\* the summary of a non-empty list with the given prices, regions, families
\* and OS values
SummaryOf(items, prices, region_set, family_set, os_set) ==
  [count |-> Len(items),
   regionsCount |-> Cardinality(region_set),
   regions |-> Sorted(region_set),
   familiesCount |-> Cardinality(family_set),
   families |-> Sorted(family_set),
   osTypes |-> Sorted(os_set),
   spotCount |-> Cardinality({k \in 1..Len(items) : items[k].isSpot}),
   avgPricePerHour |-> Rounded(Sum(prices), Len(prices)),
   minPricePerHour |-> 1000 * Min({prices[k] : k \in 1..Len(prices)}),
   maxPricePerHour |-> 1000 * Max({prices[k] : k \in 1..Len(prices)})]

\* generate_summary(items), for items whose regions can be sorted
generate_summary(items) ==
  IF items = <<>>
    THEN [count |-> 0, regionsCount |-> 0, regions |-> <<>>, familiesCount |-> 0,
          families |-> <<>>, osTypes |-> <<>>, spotCount |-> 0, avgPricePerHour |-> 0,
          minPricePerHour |-> 0, maxPricePerHour |-> 0]
  ELSE SummaryOf(items, Prices(items), Distinct(items, "region"), Distinct(items, "family"),
                 {Str(items[k].os) : k \in 1..Len(items)})

(***************************************************************************)
(* The raw records a page can hold.                                        *)
(***************************************************************************)
HourlyVm ==
  [ mapping |-> TRUE,
    serviceName |-> Str("Virtual Machines"),
    unitOfMeasure |-> Str("1 Hour"),
    meterName |-> Str("D2s v3"),
    productName |-> Str("Virtual Machines Dv3 Series Linux"),
    skuName |-> Str("Standard_D2s_v3"),
    armSkuName |-> Absent,
    retailPrice |-> Num(96),
    unitPrice |-> Num(96),
    armRegionName |-> Str("eastus"),
    location |-> Str("US East"),
    meterId |-> Str("m-hourly") ]

SqlStorage ==
  [ HourlyVm EXCEPT !.meterName = Str("Data Stored"),
                   !.productName = Str("SQL Database Storage"),
                   !.retailPrice = Num(500),
                   !.unitPrice = Num(500),
                   !.meterId = Str("m-sql") ]

MonthlyVm ==
  [ HourlyVm EXCEPT !.unitOfMeasure = Str("1 GB/Month"),
                   !.meterId = Str("m-monthly") ]

NullUnitVm ==
  [ HourlyVm EXCEPT !.unitOfMeasure = Null,
                   !.meterId = Str("m-nullunit") ]

AbsentUnitVm ==
  [ HourlyVm EXCEPT !.unitOfMeasure = Absent,
                   !.meterId = Str("m-nounit") ]

BackupMeterVm ==
  [ HourlyVm EXCEPT !.meterName = Str("D2s v3 Backup"),
                   !.meterId = Str("m-backup") ]

WindowsVm ==
  [ HourlyVm EXCEPT !.unitOfMeasure = Str("1 HOUR"),
                   !.productName = Str("Virtual Machines Dv3 Series Windows"),
                   !.armRegionName = Null,
                   !.location = Str("WestUS2"),
                   !.meterId = Str("m-windows") ]

SpotVm ==
  [ HourlyVm EXCEPT !.skuName = Str("Standard_D2s_v3 Spot"),
                   !.retailPrice = Num(20),
                   !.unitPrice = Num(20),
                   !.meterId = Str("m-spot") ]

LowPriorityVm ==
  [ HourlyVm EXCEPT !.productName = Str("Virtual Machines D Series Windows"),
                   !.skuName = Str("D4 Low Priority"),
                   !.retailPrice = AbsentNum,
                   !.unitPrice = NumStr(200),
                   !.meterId = Str("m-lowpri") ]

AtCeilingVm ==
  [ HourlyVm EXCEPT !.retailPrice = Num(1000000),
                   !.unitPrice = Num(1000000),
                   !.armRegionName = Str("northeurope"),
                   !.meterId = Str("m-ceiling") ]

OverCeilingVm ==
  [ HourlyVm EXCEPT !.retailPrice = Num(1000001),
                   !.unitPrice = Num(1000001),
                   !.meterId = Str("m-over") ]

OverCeilingUnitVm ==
  [ HourlyVm EXCEPT !.retailPrice = AbsentNum,
                   !.unitPrice = NumStr(2000000),
                   !.meterId = Str("m-overunit") ]

BadPriceVm ==
  [ HourlyVm EXCEPT !.retailPrice = BadStr,
                   !.unitPrice = Num(2000000),
                   !.meterId = Str("m-badprice") ]

NoRegionVm ==
  [ HourlyVm EXCEPT !.armRegionName = Absent,
                   !.location = Absent,
                   !.meterId = Str("m-noregion") ]

IntMeterVm ==
  [ HourlyVm EXCEPT !.meterName = IntVal("5"),
                   !.meterId = Str("m-intmeter") ]

IntArmSkuVm ==
  [ HourlyVm EXCEPT !.armSkuName = IntVal("7"),
                   !.meterId = Str("m-intarm") ]

IntRegionVm ==
  [ HourlyVm EXCEPT !.armRegionName = IntVal("3"),
                   !.meterId = Str("m-intregion") ]

NotAMapping == [ HourlyVm EXCEPT !.mapping = FALSE ]

RawItems ==
  { HourlyVm, SqlStorage, MonthlyVm, NullUnitVm,
    AbsentUnitVm, BackupMeterVm, WindowsVm, SpotVm,
    LowPriorityVm, AtCeilingVm, OverCeilingVm, OverCeilingUnitVm,
    BadPriceVm, NoRegionVm, IntMeterVm, IntArmSkuVm,
    IntRegionVm, NotAMapping }

(***************************************************************************)
(* The run: main() calls fetch_vm_prices, then save_to_json.               *)
(***************************************************************************)
\* records the page source delivers in one run
MaxFed == 2

\* pages requested in one run
MaxPageCount == 2

\* --os choices
OsFilters == {"linux", "windows", "both"}

\* --regions, after splitting; <<>> when the option is not given
RegionLists == { <<>>, <<"EastUS", "westus2">> }

\* --max-pages
MaxPagesArgs == {0, 1}

\* outcomes of random.randint(10, 100) the run is explored with
RandomPageLimits == {10, 100}

VARIABLES
  os_filter,     \* args.os
  query_filter,  \* the $filter of the first request, "" before it is built
  include_spot,  \* args.include_spot
  regions,       \* regions_list
  max_pages,     \* the page limit of fetch_vm_prices
  pc,            \* "start", "loop", "items", "returned", "done", "exit1"
  page_count,
  next_url,      \* TRUE when the last page carried a NextPageLink
  pending,       \* records of the current page not yet visited
  all_items,     \* the accepted records
  saved,         \* <<>>, or <<document>> once save_to_json has written it
  error,         \* the exception that ended the fetch loop or the run
  fed,           \* history: the raw records visited so far
  origin,        \* history: origin[k] is the raw record all_items[k] was built from
  call,          \* the arguments of a function applied on its own
  result         \* <<>>, or <<value>> once the function has returned

runVars ==
  << os_filter, query_filter, include_spot, regions, max_pages, pc, page_count, next_url,
     pending, all_items, saved, error, fed, origin >>

fnVars == << call, result >>

vars == << runVars, fnVars >>

Init ==
  /\ os_filter \in OsFilters
  /\ query_filter = ""
  /\ include_spot \in BOOLEAN
  /\ regions \in RegionLists
  /\ max_pages \in MaxPagesArgs
  /\ pc = "start"
  /\ page_count = 0
  /\ next_url = FALSE
  /\ pending = 0
  /\ all_items = <<>>
  /\ saved = <<>>
  /\ error = "none"
  /\ fed = <<>>
  /\ origin = <<>>
  /\ call = <<>>
  /\ result = <<>>

\* build_query_filter: the $filter sent with the first request
build_query_filter(filter) ==
  IF filter = "linux" THEN "serviceName eq 'Virtual Machines' and contains(productName, 'Linux')"
  ELSE IF filter = "windows"
    THEN "serviceName eq 'Virtual Machines' and contains(productName, 'Windows')"
  ELSE "serviceName eq 'Virtual Machines'"

\* fetch_vm_prices, up to the loop: a page limit of 0 is replaced by a random one
StartFetch ==
  /\ pc = "start"
  /\ \E limit \in RandomPageLimits :
       max_pages' = IF max_pages = 0 THEN limit ELSE max_pages
  /\ query_filter' = build_query_filter(os_filter)
  /\ pc' = "loop"
  /\ UNCHANGED << os_filter, include_spot, regions, page_count, next_url, pending,
                  all_items, saved, error, fed, origin >>
  /\ UNCHANGED fnVars

\* top of the loop with the page limit passed: break
ReachPageLimit ==
  /\ pc = "loop"
  /\ max_pages > 0 /\ page_count + 1 > max_pages
  /\ page_count' = page_count + 1
  /\ pc' = "returned"
  /\ UNCHANGED << os_filter, query_filter, include_spot, regions, max_pages, next_url, pending,
                  all_items, saved, error, fed, origin >>
  /\ UNCHANGED fnVars

\* the request of the next page is made
Requesting ==
  /\ pc = "loop"
  /\ ~(max_pages > 0 /\ page_count + 1 > max_pages)
  /\ page_count < MaxPageCount
  /\ page_count' = page_count + 1

\* the page arrives with a list of n records
FetchPage ==
  /\ Requesting
  /\ \E n \in 0..(MaxFed - Len(fed)) : pending' = n
  /\ pc' = "items"
  /\ UNCHANGED << os_filter, query_filter, include_spot, regions, max_pages, next_url,
                  all_items, saved, error, fed, origin >>
  /\ UNCHANGED fnVars

\* session.get or raise_for_status raises RequestException, or response.json()
\* raises JSONDecodeError: caught, break
FetchFails ==
  /\ Requesting
  /\ \E e \in {"RequestException", "JSONDecodeError"} : error' = e
  /\ pc' = "returned"
  /\ UNCHANGED << os_filter, query_filter, include_spot, regions, max_pages, next_url, pending,
                  all_items, saved, fed, origin >>
  /\ UNCHANGED fnVars

\* the body is JSON of another shape: data.get raises AttributeError when the
\* document is not an object, len(items) raises TypeError when "Items" is
\* null; neither is caught by fetch_vm_prices, main() prints it and exits 1
FetchMalformed ==
  /\ Requesting
  /\ \E e \in {"AttributeError: data", "TypeError: items"} : error' = e
  /\ pc' = "exit1"
  /\ UNCHANGED << os_filter, query_filter, include_spot, regions, max_pages, next_url, pending,
                  all_items, saved, fed, origin >>
  /\ UNCHANGED fnVars

\* _should_include_item and _process_item, tabulated over the raw records
Outcomes ==
  { [item |-> item, spot |-> spot, allow |-> allow,
     verdict |-> _should_include_item(item, spot, allow),
     processed_item |-> _process_item(item)] :
    item \in RawItems, spot \in BOOLEAN, allow \in RegionLists }

OutcomeOf(item, spot, allow) ==
  CHOOSE o \in Outcomes : o.item = item /\ o.spot = spot /\ o.allow = allow

\* the new record is put in front of the list
Prepended(items, processed_item) == processed_item \o items

\* all_items.append(processed_item), skipped when there is no record
Appended(items, processed_item) == items \o processed_item

\* one turn of "for item in items"
ProcessItem ==
  /\ pc = "items"
  /\ pending > 0
  /\ \E item \in RawItems :
       \E o \in {OutcomeOf(item, include_spot, regions)} :
         \E processed_item \in {IF o.verdict = "True" THEN o.processed_item ELSE <<>>} :
           /\ fed' = Append(fed, item)
           /\ all_items' = Appended(all_items, processed_item)
           /\ origin' = IF processed_item = <<>> THEN origin ELSE Append(origin, item)
           /\ pc' = IF o.verdict = "raise" THEN "exit1" ELSE "items"
           /\ error' = IF o.verdict = "raise" THEN "AttributeError: item" ELSE error
  /\ pending' = pending - 1
  /\ UNCHANGED << os_filter, query_filter, include_spot, regions, max_pages, page_count, next_url, saved >>
  /\ UNCHANGED fnVars

\* after the last record: follow NextPageLink, or break when there is none
EndOfPage ==
  /\ pc = "items"
  /\ pending = 0
  /\ \E link \in BOOLEAN :
       /\ next_url' = link
       /\ pc' = IF link THEN "loop" ELSE "returned"
  /\ UNCHANGED << os_filter, query_filter, include_spot, regions, max_pages, page_count, pending,
                  all_items, saved, error, fed, origin >>
  /\ UNCHANGED fnVars

\* save_to_json(items, args.out): the summary is computed first, and a
\* TypeError it raises reaches main(), which exits 1 before anything is
\* written
SaveToJson ==
  /\ pc = "returned"
  /\ IF SummaryRaises(all_items)
       THEN /\ pc' = "exit1"
            /\ error' = "TypeError: summary"
            /\ saved' = saved
       ELSE /\ pc' = "done"
            /\ error' = error
            /\ saved' = << [itemCount |-> Len(all_items),
                            summary |-> generate_summary(all_items),
                            items |-> all_items] >>
  /\ UNCHANGED << os_filter, query_filter, include_spot, regions, max_pages, page_count, next_url,
                  pending, all_items, fed, origin >>
  /\ UNCHANGED fnVars

Next ==
  \/ StartFetch
  \/ ReachPageLimit
  \/ FetchPage
  \/ FetchFails
  \/ FetchMalformed
  \/ ProcessItem
  \/ EndOfPage
  \/ SaveToJson

Spec == Init /\ [][Next]_vars

(***************************************************************************)
(* extract_series_info and get_vm_specs applied on their own, to inputs    *)
(* assembled from parts.                                                   *)
(***************************************************************************)
\* the run is not started
RunIdle ==
  /\ os_filter = "both"
  /\ query_filter = ""
  /\ include_spot = FALSE
  /\ regions = <<>>
  /\ max_pages = 0
  /\ pc = "start"
  /\ page_count = 0
  /\ next_url = FALSE
  /\ pending = 0
  /\ all_items = <<>>
  /\ saved = <<>>
  /\ error = "none"
  /\ fed = <<>>
  /\ origin = <<>>

\* SKU texts: prefix, family letters, size digits, suffix letters, version
SkuPrefixes == {"", "Standard_", "standard_"}

SkuFamilies == {"D", "NC", "b", "Ds", ""}

SkuSizes == {"2", "16", ""}

SkuSuffixes == {"", "s", "ls"}

SkuVersions == {"", "3", "12"}

SkuVersionMarks == {"_v", " v", "v"}

SeriesCalls ==
  { [prefix |-> p, letters |-> f, digits |-> n, suffix |-> x, version |-> v,
     text |-> p \o f \o n \o x \o (IF v = "" THEN "" ELSE m \o v), in_arm |-> a] :
    p \in SkuPrefixes, f \in SkuFamilies, n \in SkuSizes, x \in SkuSuffixes,
    v \in SkuVersions, m \in SkuVersionMarks, a \in BOOLEAN }

InitSeries ==
  /\ RunIdle
  /\ call \in SeriesCalls
  /\ result = <<>>

\* extract_series_info(sku_name, arm_sku_name), the text given as the ARM SKU
\* name or as the plain SKU name
ExtractSeries ==
  /\ result = <<>>
  /\ result' = << IF call.in_arm
                    THEN extract_series_info(Str(""), Str(call.text))
                  ELSE extract_series_info(Str(call.text), Null) >>
  /\ UNCHANGED call
  /\ UNCHANGED runVars

NextSeries == ExtractSeries

SpecSeries == InitSeries /\ [][NextSeries]_vars

\* size tokens: prefix, core, version suffix, promo marker
TokenPrefixes == {"", "Standard_", "standard_"}

\* each core with the normalized token it stands for
TokenCores ==
  { [text |-> "D2s", norm |-> "d2s"], [text |-> "B1ls", norm |-> "b1ls"],
    [text |-> "Z999xq", norm |-> "z999xq"], [text |-> "16", norm |-> "16"],
    [text |-> "2", norm |-> "2"], [text |-> "E64-16s", norm |-> "e64-16s"],
    [text |-> "zz", norm |-> "zz"], [text |-> "q7", norm |-> "q7"],
    [text |-> "NC6", norm |-> "nc6"], [text |-> "m128", norm |-> "m128"],
    [text |-> "x256y", norm |-> "x256y"], [text |-> "D 2s", norm |-> "d2s"],
    [text |-> "D2sv3", norm |-> "d2sv3"], [text |-> "H16r", norm |-> "h16r"],
    [text |-> "spot", norm |-> "spot"] }

TokenVersions == {"", "_v3", "_V12"}

TokenPromos == {"", "_Promo", " promo"}

ResolverCalls ==
  { [token |-> Str(p \o c.text \o v \o m), norm |-> c.norm] :
    p \in TokenPrefixes, c \in TokenCores, v \in TokenVersions, m \in TokenPromos }
  \cup { [token |-> Null, norm |-> ""], [token |-> Str(""), norm |-> ""] }

InitResolver ==
  /\ RunIdle
  /\ call \in ResolverCalls
  /\ result = <<>>

\* get_vm_specs(vm_name)
ResolveSpecs ==
  /\ result = <<>>
  /\ result' = << get_vm_specs(call.token) >>
  /\ UNCHANGED call
  /\ UNCHANGED runVars

NextResolver == ResolveSpecs

SpecResolver == InitResolver /\ [][NextResolver]_vars


(***************************************************************************)
(* generate_summary applied on its own, to lists of records built by       *)
(* _process_item.                                                          *)
(***************************************************************************)
\* records in one list
MaxSummaryLen == 3

\* further raw records: other families, prices and spellings of a region
NcVm ==
  [ HourlyVm EXCEPT !.skuName = Str("Standard_NC6"),
                   !.productName = Str("Virtual Machines NC Series"),
                   !.retailPrice = Num(500),
                   !.armRegionName = Str("westeurope"),
                   !.meterId = Str("m-nc") ]

BsVm ==
  [ HourlyVm EXCEPT !.skuName = Str("b2s"),
                   !.productName = Str("Virtual Machines BS Series Windows"),
                   !.retailPrice = Num(1500),
                   !.meterId = Str("m-bs") ]

EsVm ==
  [ HourlyVm EXCEPT !.skuName = Str("Standard_E4s_v3 Spot"),
                   !.retailPrice = Num(2000),
                   !.armRegionName = Str("EastUS"),
                   !.meterId = Str("m-es") ]

\* the records the lists are made of; every region is a string
SummaryItems ==
  { _process_item(item)[1] :
      item \in {HourlyVm, WindowsVm, SpotVm, NoRegionVm, AtCeilingVm, BadPriceVm,
                NcVm, BsVm, EsVm} }

RECURSIVE Lists(_)
\* the lists of at most n records
Lists(n) ==
  IF n = 0 THEN {<<>>}
  ELSE Lists(n - 1) \cup {Append(list, item) : list \in Lists(n - 1), item \in SummaryItems}

InitSummary ==
  /\ RunIdle
  /\ call \in Lists(MaxSummaryLen)
  /\ result = <<>>

\* generate_summary(items)
Summarize ==
  /\ result = <<>>
  /\ ~SummaryRaises(call)
  /\ result' = << generate_summary(call) >>
  /\ UNCHANGED call
  /\ UNCHANGED runVars

NextSummary == Summarize

SpecSummary == InitSummary /\ [][NextSummary]_vars

(***************************************************************************)
(* The price of one raw record: the inclusion test and _process_item       *)
(* applied to records that differ in their two price fields only.          *)
(***************************************************************************)
\* retailPrice and unitPrice: missing, null, 0, 0.5, 2.5, the ceiling, just
\* above it, the text "0.75", and a text that is not a number
PriceValues ==
  { AbsentNum, NoNum, Num(0), Num(500), Num(2500), Num(Dollars(MaxPricePerHour)),
    Num(Dollars(MaxPricePerHour) + 1), NumStr(750), BadStr }

PriceCases ==
  { [HourlyVm EXCEPT !.retailPrice = retail, !.unitPrice = unit] :
      retail \in PriceValues, unit \in PriceValues }

InitPrice ==
  /\ RunIdle
  /\ call \in PriceCases
  /\ result = <<>>

\* one turn of "for item in items" of fetch_vm_prices, on its own
IncludeAndProcess ==
  /\ result = <<>>
  /\ \E verdict \in {_should_include_item(call, FALSE, <<>>)} :
       result' = << [verdict |-> verdict,
                     processed_item |-> IF verdict = "True" THEN _process_item(call)
                                        ELSE <<>>] >>
  /\ UNCHANGED call
  /\ UNCHANGED runVars

NextPrice == IncludeAndProcess

SpecPrice == InitPrice /\ [][NextPrice]_vars

(***************************************************************************)
(* parse_vm_specs applied on its own.  Each text comes with the numbers it *)
(* states: vcpu for "<digits> vCPU", gb for "<digits> GB", NoNum for none. *)
(***************************************************************************)
ProductTexts ==
  { [text |-> Null, vcpu |-> NoNum, gb |-> NoNum],
    [text |-> Str("Virtual Machines Dv3 Series"), vcpu |-> NoNum, gb |-> NoNum],
    [text |-> Str("VM 4 vCPU 16 GB"), vcpu |-> Num(4), gb |-> GB(16)],
    [text |-> Str("8 vcpus"), vcpu |-> Num(8), gb |-> NoNum],
    [text |-> Str("32GB RAM"), vcpu |-> NoNum, gb |-> GB(32)],
    [text |-> Str("0 vCPU 0 GB"), vcpu |-> Num(0), gb |-> GB(0)] }

SkuTexts ==
  { [text |-> Null, vcpu |-> NoNum, gb |-> NoNum],
    [text |-> Str("D2s v3"), vcpu |-> NoNum, gb |-> NoNum],
    [text |-> Str("2 vCPU"), vcpu |-> Num(2), gb |-> NoNum],
    [text |-> Str("64 gb"), vcpu |-> NoNum, gb |-> GB(64)] }

\* in the table, in the table with half a GB, unknown to the resolver,
\* resolved by the numeric rule, and the table row without values
VmNames ==
  { Null, Str("Standard_D2s_v3"), Str("Standard_B1ls"), Str("xyz"), Str("Q16"), Str("spot") }

\* the number the text "product sku" states: the leftmost one
Stated(first, second) == IF first.kind = "num" THEN first ELSE second

ParseCalls ==
  { [product_name |-> p.text, sku_name |-> k.text, vm_name |-> v,
     vcpu_text |-> Stated(p.vcpu, k.vcpu), gb_text |-> Stated(p.gb, k.gb)] :
    p \in ProductTexts, k \in SkuTexts, v \in VmNames }

InitParse ==
  /\ RunIdle
  /\ call \in ParseCalls
  /\ result = <<>>

\* parse_vm_specs(product_name, sku_name, vm_name)
ParseSpecs ==
  /\ result = <<>>
  /\ result' = << parse_vm_specs(call.product_name, call.sku_name, call.vm_name) >>
  /\ UNCHANGED call
  /\ UNCHANGED runVars

NextParse == ParseSpecs

SpecParse == InitParse /\ [][NextParse]_vars

(***************************************************************************)
(* The run under every kind of page limit.  argparse reads --max-pages     *)
(* with type=int, so a negative limit is accepted as well.                 *)
(***************************************************************************)
\* --max-pages: negative, 0 (a random limit), and limits of one and two pages
LoopPagesArgs == {-1, 0, 1, 2}

InitLoop ==
  /\ os_filter = "both"
  /\ query_filter = ""
  /\ include_spot = FALSE
  /\ regions = <<>>
  /\ max_pages \in LoopPagesArgs
  /\ pc = "start"
  /\ page_count = 0
  /\ next_url = FALSE
  /\ pending = 0
  /\ all_items = <<>>
  /\ saved = <<>>
  /\ error = "none"
  /\ fed = <<>>
  /\ origin = <<>>
  /\ call = <<>>
  /\ result = <<>>

SpecLoop == InitLoop /\ [][Next]_vars
(***************************************************************************)
(* Properties.                                                             *)
(***************************************************************************)
\* the text a field holds, "" when it holds none
TextOf(v) == IF IsStr(v) THEN v.s ELSE ""

\* every text field of the record is a string, null or missing
WellTyped(item) ==
  /\ item.mapping
  /\ \A v \in {item.serviceName, item.unitOfMeasure, item.meterName, item.productName,
               item.skuName, item.armSkuName, item.armRegionName, item.location} :
       v.kind # "int"

\* the records whose unit of measure names an hour, in any case
HourlyItems ==
  {item \in RawItems : Contains(Lower(TextOf(item.unitOfMeasure)), "hour")}

NonVmTerms ==
  { "reservation", "sql", "database", "storage", "bandwidth", "snapshot", "backup",
    "oracle", "premium ssd", "managed disk" }

\* the records whose meter, product or SKU name holds an exclusion term
ExcludedItems ==
  {item \in RawItems :
     \E term \in NonVmTerms :
       Contains(Lower(TextOf(item.meterName) \o " " \o TextOf(item.productName)
                      \o " " \o TextOf(item.skuName)), term)}

\* the records whose SKU or product name marks a spot or low-priority offer
SpotItems ==
  {item \in RawItems :
     \E mark \in {"spot", "low priority", "low-priority"} :
       Contains(Lower(TextOf(item.skuName) \o " " \o TextOf(item.productName)), mark)}

\* the region identifier of a record: the ARM region, else the location
RegionText(item) ==
  IF TextOf(item.armRegionName) # "" THEN TextOf(item.armRegionName)
  ELSE TextOf(item.location)

\* for each allow-list, the records whose region identifier is on it
AllowedItems ==
  { [allow |-> allow,
     items |-> {item \in RawItems :
                  /\ RegionText(item) # ""
                  /\ \E k \in 1..Len(allow) : Lower(allow[k]) = Lower(RegionText(item))}] :
    allow \in RegionLists }

AllowedBy(allow) == (CHOOSE a \in AllowedItems : a.allow = allow).items

\* the records that pass the service and consumption tests and can be built
VmCandidates ==
  {item \in RawItems :
     /\ WellTyped(item)
     /\ item.serviceName = Str("Virtual Machines")
     /\ is_consumption_pricing(item) = "True"
     /\ _process_item(item) # <<>>}

\* the price a record is judged by, when it can be parsed
PricedItems == {item \in RawItems : item.mapping /\ Parseable(SelectedPrice(item))}

Accepted(k) == \E j \in 1..Len(origin) : origin[j] = fed[k]

\* C1: one page holding the hourly D2s_v3 record and the SQL storage record,
\* OS filter "both", spot excluded, no region filter: exactly one record is
\* accepted, with family "D", series "Dv3", os "Linux", 2 vCPUs, 8 GB,
\* price 0.096 and region "eastus".
C1_EndToEnd ==
  ( /\ pc \in {"returned", "done"}
    /\ os_filter = "both" /\ ~include_spot /\ regions = <<>>
    /\ page_count = 1
    /\ fed = << HourlyVm, SqlStorage >> )
  => /\ Len(all_items) = 1
     /\ all_items[1].family = Str("D")
     /\ all_items[1].series = Str("Dv3")
     /\ all_items[1].os = "Linux"
     /\ all_items[1].vcpus = Num(2)
     /\ all_items[1].memoryGB = GB(8)
     /\ all_items[1].pricePerHour = 96
     /\ all_items[1].region = Str("eastus")

\* C2: for a SKU made of family letters, size digits, optional lowercase
\* letters and an optional version v<digits>, family is the letter code and
\* series is family + "v" + version digits, or the family alone when there
\* is no version; the size digits are never taken as the version.
C2_SeriesExtraction ==
  ( /\ result # <<>>
    /\ call.prefix \in {"", "Standard_"}
    /\ call.letters # "" /\ call.digits # "" )
  => /\ result[1].family = Str(call.letters)
     /\ result[1].series =
          Str(call.letters \o (IF call.version = "" THEN "" ELSE "v" \o call.version))

\* C3: whatever a record of the page does to the code that handles it, the
\* turn of the item loop that visits it leaves the loop running: the records
\* accepted before it are kept and the rest of the page is still visited.
C3_ItemFailureSkipped ==
  [][ (pc = "items" /\ pending > 0)
      => /\ pc' = "items"
         /\ pending' = pending - 1
         /\ SubSeq(all_items', 1, Len(all_items)) = all_items ]_vars

PageErrors ==
  {"RequestException", "JSONDecodeError", "AttributeError: data", "TypeError: items"}

\* C4: a fetch failure or a malformed page payload ends the fetch loop only:
\* the records accepted so far are returned and saved.
C4_PageFailureNotFatal ==
  error \in PageErrors
  => /\ pc \in {"returned", "done"}
     /\ pc = "done" => /\ Len(saved) = 1
                     /\ saved[1].itemCount = Len(all_items)
                     /\ saved[1].items = all_items

\* C5, for single records: a record without an hourly unit, or with an
\* exclusion term in its meter, product or SKU name, does not pass the
\* inclusion test, whatever its price.
C5_Rejected ==
  \A o \in Outcomes :
    (o.item \notin HourlyItems \/ o.item \in ExcludedItems)
    => IF WellTyped(o.item) THEN o.verdict = "False" ELSE o.verdict # "True"

\* C5: no accepted record lacks an hourly unit of measure or holds an
\* exclusion term, and the inclusion test rejects every such record.
C5_ConsumptionOnly ==
  /\ C5_Rejected
  /\ \A k \in 1..Len(origin) : origin[k] \in HourlyItems /\ origin[k] \notin ExcludedItems

W5_ConsumptionOnly ==
  /\ pc = "done"
  /\ fed = << SqlStorage, WindowsVm >>
  /\ origin = << WindowsVm >>

\* C6, for single records: a parseable price above 1000 is refused by the
\* inclusion test and by record building alike; a price of exactly 1000 is
\* kept as it is.
C6_Single ==
  \A o \in Outcomes :
    /\ (o.item \in PricedItems /\ SelectedPrice(o.item).n > Dollars(1000))
       => o.verdict # "True" /\ o.processed_item = <<>>
    /\ (o.item \in PricedItems /\ SelectedPrice(o.item).n = Dollars(1000)
        /\ WellTyped(o.item) /\ o.item \in HourlyItems \ ExcludedItems)
       => /\ is_consumption_pricing(o.item) = "True"
          /\ Len(o.processed_item) = 1
          /\ o.processed_item[1].pricePerHour = Dollars(1000)

C7_SpotAndRegion ==
  /\ \A k \in 1..Len(all_items) :
       /\ all_items[k].isSpot = (origin[k] \in SpotItems)
       /\ ~include_spot => ~all_items[k].isSpot
       /\ regions # <<>> => origin[k] \in AllowedBy(regions)
  /\ \A k \in 1..Len(fed) :
       fed[k] \in VmCandidates
       => ( Accepted(k) <=> /\ (include_spot \/ fed[k] \notin SpotItems)
                            /\ (regions = <<>> \/ fed[k] \in AllowedBy(regions)) )

W7_SpotAndRegion ==
  /\ pc = "done"
  /\ ~include_spot
  /\ regions # <<>>
  /\ fed = << SpotVm, WindowsVm >>
  /\ origin = << WindowsVm >>

\* C8: with OS filter "linux" no accepted record has detected OS Windows,
\* with "windows" none has detected OS Linux.
C8_OsFilterApplied ==
  \A k \in 1..Len(all_items) :
    /\ os_filter = "linux" => all_items[k].os # "Windows"
    /\ os_filter = "windows" => all_items[k].os # "Linux"

\* the rows of the table whose key is the token
ExactRows(c) == {k \in 1..Len(VM_SPECS_LOOKUP) : VM_SPECS_LOOKUP[k].key = c}

\* the rows of the table whose key occurs in the token
PartialRows(c) == {k \in 1..Len(VM_SPECS_LOOKUP) : Contains(c, VM_SPECS_LOOKUP[k].key)}

\* C9: get_vm_specs returns the result of the first rule that matches the
\* normalized token: exact table match; first table key, in insertion order,
\* that occurs in the token; the extracted size token when it is a key; the
\* estimate n, 4n when the first digit run n is a canonical size; otherwise
\* unknown.  An empty or null token gives unknown.  "D2s_v3" gives 2 and 8,
\* "Z999xq" unknown, "16" gives 16 and 64.
C9_ResolverPrecedence ==
  result # <<>> =>
    LET c == call.norm
        out == result[1]
    IN  /\ IF ~Truthy(call.token) THEN out = NoSpecs
           ELSE IF ExactRows(c) # {}
             THEN \E k \in ExactRows(c) : out = SpecsOf(k)
           ELSE IF PartialRows(c) # {}
             THEN \E k \in PartialRows(c) :
                    /\ \A j \in PartialRows(c) : k <= j
                    /\ out = SpecsOf(k)
           ELSE IF ExactRows(SizeKey(c)) # {}
             THEN \E k \in ExactRows(SizeKey(c)) : out = SpecsOf(k)
           ELSE IF NumericKey(c) \in {"2", "4", "8", "16", "32", "64", "128", "256"}
             THEN out = [vcpus |-> Num(ToInt(NumericKey(c))),
                         memoryGB |-> GB(4 * ToInt(NumericKey(c)))]
           ELSE out = NoSpecs
        /\ call.token = Str("D2s_v3") => out = [vcpus |-> Num(2), memoryGB |-> GB(8)]
        /\ call.token = Str("Z999xq") => out = NoSpecs
        /\ call.token = Str("16") => out = [vcpus |-> Num(16), memoryGB |-> GB(64)]

W9_ResolverPrecedence ==
  /\ call.token = Str("Standard_D2sv3_v3_Promo")
  /\ result = << [vcpus |-> Num(2), memoryGB |-> GB(7)] >>

\* C10: a family that is resolved holds uppercase letters only; otherwise
\* family and series are both unresolved.
C10_FamilyUppercase ==
  result # <<>> =>
    \/ result[1].family = Null /\ result[1].series = Null
    \/ /\ IsStr(result[1].family)
       /\ result[1].family.s # ""
       /\ \A i \in 1..Len(result[1].family.s) : IsUpper(Char(result[1].family.s, i))

\* the elements of a list
Elements(list) == {list[k] : k \in 1..Len(list)}

\* a list in strictly ascending order, hence without duplicates
Ascending(list) == \A i, j \in 1..Len(list) : i < j => ValueBefore(list[i], list[j])

\* the non-empty values of a field in a list of records
NonEmpty(list, field) == {list[k][field] : k \in 1..Len(list)} \ {Null, Str("")}

ExampleList == _process_item(NcVm) \o _process_item(BsVm) \o _process_item(EsVm)

IsPrefix(s, t) == Len(s) <= Len(t) /\ SubSeq(t, 1, Len(s)) = s

\* the records the visited raw records yield, in the order of the visits
RECURSIVE AcceptedOf(_, _, _)
AcceptedOf(visited, spot, allow) ==
  IF visited = <<>> THEN <<>>
  ELSE LET o == OutcomeOf(Head(visited), spot, allow)
       IN (IF o.verdict = "True" THEN o.processed_item ELSE <<>>)
            \o AcceptedOf(Tail(visited), spot, allow)

\* C12: the accepted-record sequence only grows by appending: every step
\* leaves the earlier sequence as a prefix of the later one and adds at most
\* one record per raw record visited; at every moment the sequence holds the
\* records the visited raw records yield, in the order of the visits; the
\* document written holds that sequence, and its itemCount is its length.
C12_AppendOnly ==
  /\ [][ /\ IsPrefix(all_items, all_items')
         /\ Len(all_items') - Len(all_items) <= Len(fed') - Len(fed) ]_vars
  /\ [](all_items = AcceptedOf(fed, include_spot, regions))
  /\ [](pc = "done" => /\ saved[1].items = all_items
                       /\ saved[1].itemCount = Len(saved[1].items))

\* two different records accepted on two pages and written in that order
W12_AppendOnly ==
  /\ pc = "done"
  /\ page_count = 2
  /\ Len(fed) = 2
  /\ Len(saved[1].items) = 2
  /\ saved[1].items[1] # saved[1].items[2]
  /\ saved[1].items = AcceptedOf(fed, include_spot, regions)

(***************************************************************************)
(* The price of a record.                                                  *)
(***************************************************************************)
\* the field holds a value: it is neither missing nor null
Present(v) == v.kind \notin {"absent", "null"}

\* C13: for every accepted record, pricePerHour is the retail price whenever
\* that field holds a number (0 included), is the unit price when the retail
\* price is missing and the unit price holds a number, is 0 when neither
\* field holds a number, and is a price the ceiling check lets through.
C13_PriceSelection ==
  (result # <<>> /\ result[1].processed_item # <<>>) =>
     LET price == result[1].processed_item[1].pricePerHour
     IN  /\ Parseable(call.retailPrice) => price = call.retailPrice.n
         /\ (~Present(call.retailPrice) /\ Parseable(call.unitPrice))
              => price = call.unitPrice.n
         /\ (~Parseable(call.retailPrice) /\ ~Parseable(call.unitPrice)) => price = 0
         /\ ~AboveCeiling(price)

(***************************************************************************)
(* The fallback of parse_vm_specs.                                         *)
(***************************************************************************)
\* the value parse_vm_specs must give one field: the resolver's value, else
\* the number the text states, else unknown
FieldOf(looked, stated) ==
  IF looked.kind = "num" THEN looked
  ELSE IF stated.kind = "num" THEN stated
  ELSE NoNum

\* C14: per field, parse_vm_specs keeps the value get_vm_specs returned,
\* takes the number of the "<digits> vCPU" / "<digits> GB" text when the
\* resolver left the field unknown and the text states one, and leaves the
\* field unknown (not zero) when neither gives a value.
C14_FallbackPerField ==
  result # <<>> =>
    /\ result[1].vcpus = FieldOf(get_vm_specs(call.vm_name).vcpus, call.vcpu_text)
    /\ result[1].memoryGB = FieldOf(get_vm_specs(call.vm_name).memoryGB, call.gb_text)

\* the resolver's 2 vCPUs and 8 GB are kept although the text states 4 and 16
W14_FallbackPerField ==
  /\ result # <<>>
  /\ call.vm_name = Str("Standard_D2s_v3")
  /\ call.vcpu_text = Num(4)
  /\ call.gb_text = GB(16)
  /\ result[1] = [vcpus |-> Num(2), memoryGB |-> GB(8)]

\* the resolver knows nothing, the text states the memory only
W14_TextFillsOneField ==
  /\ result # <<>>
  /\ call.vm_name = Str("xyz")
  /\ call.vcpu_text = NoNum
  /\ call.gb_text = GB(32)
  /\ result[1] = [vcpus |-> NoNum, memoryGB |-> GB(32)]

(***************************************************************************)
(* The bound of the fetch loop.                                            *)
(***************************************************************************)
\* the loop has been left
LoopLeft == pc \in {"returned", "done", "exit1"}

\* a page is requested only within the page limit
WithinLimit == [][Requesting => page_count' <= max_pages]_vars

\* once the loop is left no page is requested, and the loop is left when a
\* page comes without a continuation link or the fetch fails
LeavesLoop ==
  /\ [][LoopLeft => page_count' = page_count /\ LoopLeft']_vars
  /\ [][(pc = "items" /\ pc' # "items" /\ ~next_url') => LoopLeft']_vars
  /\ [][error' # error => LoopLeft']_vars

\* C15: the loop never requests more pages than the page limit (max_pages
\* itself, or the random limit drawn when max_pages is 0), and it requests no
\* page once a page came without a continuation link or a fetch failed.
C15_LoopBound == WithinLimit /\ LeavesLoop
====
